---- MODULE Spec2Model ----
(***************************************************************************)
(* The Kokoro helper scripts of tts-swift:                                 *)
(*   kokoro_download_voice.py  fetch one voice, extensions in priority     *)
(*   kokoro_say.py             synthesize, assemble audio and word timings *)
(*   lib/word_timing.py        the timing loop as a library function       *)
(*   kokoro_list_remote.py     remote voice listing and the cache scan     *)
(*   lib/voice_utils.py        voice file names                            *)
(*   kokoro_voices.py          list the voices of a materialized snapshot  *)
(*   kokoro_prefetch.py        materialize the model files                 *)
(* Each script is a state machine of its own (SpecDownload, SpecSay,       *)
(* SpecClassify, SpecCache, SpecVoiceName, SpecListRemote, SpecVoices,     *)
(* SpecPrefetch, SpecMaterialize); the variables of the others stay idle.  *)
(*                                                                         *)
(* Time is kept in milliseconds: a chunk of n samples at 24000 Hz lasts    *)
(* n * 1000 / 24000 ms, and the sample counts drawn are multiples of 24,   *)
(* so the division is exact.  Python computes the same sums in binary      *)
(* floating point; rounding is not modelled.                               *)
(***************************************************************************)
EXTENDS Integers, Sequences, FiniteSets, TLC

VARIABLES
    \* ---- kokoro_download_voice.py: main
    repo_files,     \* the files the remote repository holds (paths)
    args_voice,     \* --voice
    dl_pc,          \* "loop" | "after_loop" | "done"
    ext_i,          \* index into extensions of the next attempt
    downloaded,     \* the flag of line 21
    attempts,       \* every hf_hub_download call made: [filename, outcome]
    dl_stdout,      \* lines printed to stdout
    dl_stderr,      \* lines printed to stderr
    dl_exit,        \* the value main returns, -1 while running
    \* ---- kokoro_say.py: main
    say_pc,         \* "snapshot" | "pipeline" | "iterate" | "tokens" |
                    \* "after_loop" | "write_wav" | "write_timings" | "done"
    args_timings,   \* TRUE when --timings names a file; read at line 78 only,
                    \* and drawn there
    chunks,         \* the results the pipeline has yielded so far, in order
    tok_i,          \* index of the next token of the current result
    audio_chunks,   \* line 45: sample count of every appended buffer
    word_timings,   \* line 46
    current_time,   \* line 47, in ms
    wav_file,       \* <<>>, or <<n>>: n samples written to --out
    timings_file,   \* <<>>, or <<list>>: the list written to --timings
    fail_stage,     \* where an exception was raised, "none" if none
    say_exit,       \* the value main returns, -1 while running
    \* ---- lib/word_timing.py: extract_word_timings, beside the inline loop
    cls_pc,         \* "call" | "returned"
    cls_tokens,     \* the token list handed in
    cls_time,       \* the current_time handed in
    cls_out,        \* the list extract_word_timings returned, <<>> before
    cls_inline,     \* what the loop of kokoro_say.py lines 52-65 appended
    \* ---- kokoro_list_remote.py: find_downloaded_voices_in_cache
    env,            \* [HF_HUB_CACHE, HF_HOME]: "" when unset or empty
    fs_dirs,        \* the directories that exist (paths)
    fs_files,       \* voices directory -> the file names in it
    cache_pc,       \* "start" | "snapshots" | "scan" | "done"
    pending,        \* snapshot entries os.listdir returned, not yet visited
    cache_downloaded, \* the list `downloaded`
    cache_error,    \* "none", or the exception the function raised
    cache_reported, \* <<>>, or <<list>>: the "downloaded" field main prints
    \* ---- lib/voice_utils.py beside the helpers of kokoro_list_remote.py
    vn_pc,          \* "call" | "returned"
    vn_path,        \* the file name or path handed in
    vn_lib,         \* <<>>, or <<[accepted, name]>> from lib/voice_utils.py
    vn_remote,      \* <<>>, or <<[accepted, name]>> from kokoro_list_remote.py
    \* ---- kokoro_list_remote.py: main
    lr_pc,          \* "list" | "collect" | "cache" | "print" | "done"
    lr_repo,        \* the paths the remote repository holds
    lr_files,       \* `files`, line 58
    lr_voices,      \* `voices`, line 60
    lr_downloaded,  \* `downloaded`, line 65
    lr_output,      \* <<>>, or <<result>>: the JSON object printed
    lr_exit,        \* the value main returns, -1 while running
    \* ---- kokoro_voices.py: main
    kv_pc,          \* "select" | "snapshot" | "list" | "done"
    kv_args,        \* [voice, all]
    kv_env,         \* [KOKORO_VOICE, KOKORO_ALL_VOICES]: <<>> when unset
    kv_repo,        \* the paths the remote repository holds
    kv_cached,      \* names already in the snapshot's voices directory
    kv_voice,       \* `voice`
    kv_list_all,    \* `list_all`
    kv_patterns,    \* `allow_patterns`
    kv_dir,         \* <<>>: no voices directory; <<names>>: its entries
    kv_output,      \* <<>>, or <<list>>: the JSON list printed
    kv_exit,        \* the value main returns, -1 while running
    \* ---- kokoro_prefetch.py: main
    pf_pc,          \* "snapshot" | "spacy" | "done"
    pf_repo,        \* the paths the remote repository holds
    pf_materialized, \* the paths snapshot_download wrote
    pf_stdout,      \* the last line printed, "" if none
    pf_exit,        \* the value main returns, -1 while running
    \* ---- kokoro_say.py lines 33-43 beside kokoro_download_voice.py 20-35
    mat_pc,         \* "resolve" | "snapshot" | "done"
    mat_voice,      \* --voice, given to both scripts
    mat_repo,       \* the paths the remote repository holds
    mat_ext_i,      \* index into extensions of the next attempt
    mat_resolved,   \* <<>>, or <<path>>: the file the download loop fetched
    mat_patterns,   \* the allow_patterns kokoro_say passes
    mat_materialized \* the paths kokoro_say's snapshot_download wrote

dlVars    == <<repo_files, args_voice, dl_pc, ext_i, downloaded, attempts,
               dl_stdout, dl_stderr, dl_exit>>
sayVars   == <<say_pc, args_timings, chunks, tok_i, audio_chunks, word_timings,
               current_time, wav_file, timings_file, fail_stage, say_exit>>
clsVars   == <<cls_pc, cls_tokens, cls_time, cls_out, cls_inline>>
cacheVars == <<env, fs_dirs, fs_files, cache_pc, pending, cache_downloaded,
               cache_error, cache_reported>>
nameVars  == <<vn_pc, vn_path, vn_lib, vn_remote>>
lrVars    == <<lr_pc, lr_repo, lr_files, lr_voices, lr_downloaded, lr_output,
               lr_exit>>
kvVars    == <<kv_pc, kv_args, kv_env, kv_repo, kv_cached, kv_voice,
               kv_list_all, kv_patterns, kv_dir, kv_output, kv_exit>>
pfVars    == <<pf_pc, pf_repo, pf_materialized, pf_stdout, pf_exit>>
matVars   == <<mat_pc, mat_voice, mat_repo, mat_ext_i, mat_resolved,
               mat_patterns, mat_materialized>>
vars      == <<dlVars, sayVars, clsVars, cacheVars, nameVars, lrVars, kvVars,
               pfVars, matVars>>

\* the state of a script that is not running
DlIdle ==
    /\ repo_files = {} /\ args_voice = "" /\ dl_pc = "idle" /\ ext_i = 1
    /\ downloaded = FALSE /\ attempts = <<>> /\ dl_stdout = <<>>
    /\ dl_stderr = <<>> /\ dl_exit = -1

SayIdle ==
    /\ say_pc = "idle" /\ args_timings = FALSE /\ chunks = <<>> /\ tok_i = 1
    /\ audio_chunks = <<>> /\ word_timings = <<>> /\ current_time = 0
    /\ wav_file = <<>> /\ timings_file = <<>> /\ fail_stage = "none"
    /\ say_exit = -1

ClsIdle ==
    /\ cls_pc = "idle" /\ cls_tokens = <<>> /\ cls_time = 0 /\ cls_out = <<>>
    /\ cls_inline = <<>>

CacheIdle ==
    /\ env = <<>> /\ fs_dirs = {} /\ fs_files = <<>>
    /\ cache_pc = "idle" /\ pending = {} /\ cache_downloaded = <<>>
    /\ cache_error = "none" /\ cache_reported = <<>>

NameIdle ==
    /\ vn_pc = "idle" /\ vn_path = <<>> /\ vn_lib = <<>> /\ vn_remote = <<>>

LrIdle ==
    /\ lr_pc = "idle" /\ lr_repo = {} /\ lr_files = {} /\ lr_voices = {}
    /\ lr_downloaded = <<>> /\ lr_output = <<>> /\ lr_exit = -1

KvIdle ==
    /\ kv_pc = "idle" /\ kv_args = <<>> /\ kv_env = <<>> /\ kv_repo = {}
    /\ kv_cached = {} /\ kv_voice = <<>> /\ kv_list_all = FALSE
    /\ kv_patterns = <<>> /\ kv_dir = <<>> /\ kv_output = <<>> /\ kv_exit = -1

PfIdle ==
    /\ pf_pc = "idle" /\ pf_repo = {} /\ pf_materialized = {}
    /\ pf_stdout = "" /\ pf_exit = -1

MatIdle ==
    /\ mat_pc = "idle" /\ mat_voice = <<>> /\ mat_repo = {} /\ mat_ext_i = 1
    /\ mat_resolved = <<>> /\ mat_patterns = <<>> /\ mat_materialized = {}

\* every script below kokoro_list_remote.py's cache scan at rest
OthersIdle == NameIdle /\ LrIdle /\ KvIdle /\ PfIdle /\ MatIdle

(***************************************************************************)
(* kokoro_download_voice.py                                                *)
(***************************************************************************)

\* the voice names and the remote files the model draws from
VoiceNames == {"af_heart", "bf_emma"}

extensions == <<".pt", ".onnx", ".bin">>

VoiceFile(voice, ext) == "voices/" \o voice \o ext

RepoFilePool == {VoiceFile(v, extensions[i]) : v \in VoiceNames, i \in 1..Len(extensions)}

\* What a call of hf_hub_download can do: fetch a file the repository has,
\* raise EntryNotFoundError for one it has not, or raise for any other
\* reason (connection, HTTP 5xx, disk) whatever the repository holds.
hf_hub_download(files, filename) ==
    IF filename \in files THEN {"ok", "fault"} ELSE {"absent", "fault"}

DlInit ==
    /\ repo_files \in SUBSET RepoFilePool
    /\ args_voice \in VoiceNames
    /\ dl_pc = "loop"
    /\ ext_i = 1
    /\ downloaded = FALSE
    /\ attempts = <<>>
    /\ dl_stdout = <<>>
    /\ dl_stderr = <<>>
    /\ dl_exit = -1

\* the loop without its `break`: a success is followed by the next extension
DlAttemptNoBreak ==
    /\ dl_pc = "loop"
    /\ ext_i <= Len(extensions)
    /\ LET filename == VoiceFile(args_voice, extensions[ext_i]) IN
       \E outcome \in hf_hub_download(repo_files, filename) :
          /\ attempts' = Append(attempts, [filename |-> filename, ext |-> extensions[ext_i],
                                           outcome |-> outcome])
          /\ ext_i' = ext_i + 1
          /\ IF outcome = "ok"
             THEN /\ downloaded' = TRUE
                  /\ dl_stdout' = Append(dl_stdout, "Downloaded " \o args_voice)
             ELSE UNCHANGED <<downloaded, dl_stdout>>
          /\ UNCHANGED <<dl_pc, dl_exit, dl_stderr>>
    /\ UNCHANGED <<repo_files, args_voice>>
    /\ UNCHANGED <<sayVars, clsVars, cacheVars, nameVars, lrVars, kvVars, pfVars, matVars>>

\* lines 23-35: one iteration of `for ext in extensions`
DlAttempt ==
    /\ dl_pc = "loop"
    /\ ext_i <= Len(extensions)
    /\ LET filename == VoiceFile(args_voice, extensions[ext_i]) IN
       \E outcome \in hf_hub_download(repo_files, filename) :
          /\ attempts' = Append(attempts, [filename |-> filename, ext |-> extensions[ext_i],
                                           outcome |-> outcome])
          /\ IF outcome = "ok"
             THEN /\ downloaded' = TRUE
                  /\ dl_stdout' = Append(dl_stdout, "Downloaded " \o args_voice)
                  /\ dl_pc' = "after_loop"
                  /\ UNCHANGED <<ext_i, dl_exit, dl_stderr>>
             ELSE \* lines 34-35: except Exception: continue
                  /\ ext_i' = ext_i + 1
                  /\ UNCHANGED <<downloaded, dl_stdout, dl_pc, dl_exit, dl_stderr>>
    /\ UNCHANGED <<repo_files, args_voice>>
    /\ UNCHANGED <<sayVars, clsVars, cacheVars, nameVars, lrVars, kvVars, pfVars, matVars>>

\* the for loop ran out of extensions
DlExhausted ==
    /\ dl_pc = "loop"
    /\ ext_i > Len(extensions)
    /\ dl_pc' = "after_loop"
    /\ UNCHANGED <<repo_files, args_voice, ext_i, downloaded, attempts,
                   dl_stdout, dl_stderr, dl_exit>>
    /\ UNCHANGED <<sayVars, clsVars, cacheVars, nameVars, lrVars, kvVars, pfVars, matVars>>

\* lines 37-41
DlReturn ==
    /\ dl_pc = "after_loop"
    /\ IF ~downloaded
       THEN /\ dl_stderr' = Append(dl_stderr, "Voice " \o args_voice \o " not found in repo")
            /\ dl_exit' = 1
       ELSE /\ dl_exit' = 0
            /\ UNCHANGED dl_stderr
    /\ dl_pc' = "done"
    /\ UNCHANGED <<repo_files, args_voice, ext_i, downloaded, attempts, dl_stdout>>
    /\ UNCHANGED <<sayVars, clsVars, cacheVars, nameVars, lrVars, kvVars, pfVars, matVars>>

DlNext == DlAttempt \/ DlExhausted \/ DlReturn

InitDownload == DlInit /\ SayIdle /\ ClsIdle /\ CacheIdle /\ OthersIdle

SpecDownload == InitDownload /\ [][DlNext]_vars

\* the extensions of the files that were fetched
Fetched == {attempts[i].ext : i \in {j \in 1..Len(attempts) : attempts[j].outcome = "ok"}}

\* indices of the extensions under which the requested voice is in the repository
Available == {i \in 1..Len(extensions) : VoiceFile(args_voice, extensions[i]) \in repo_files}

Min(S) == CHOOSE x \in S : \A y \in S : x <= y

\* C1: the fetched extension is the first of (.pt, .onnx, .bin) under which
\* voices/<name><ext> is in the repository; with none, the voice is reported
\* not found and main returns 1.
C1_FirstAvailableFetched ==
    dl_pc = "done" =>
        IF Available = {}
        THEN Fetched = {} /\ dl_exit = 1
        ELSE Fetched = {extensions[Min(Available)]} /\ dl_exit = 0

\* C8: a fault of the remote collaborator (any failure other than the file
\* being absent) is surfaced as a failure: no further extension is tried
\* after it, and main does not return 0 or the not-found code 1.
C8_FaultSurfaced ==
    \A i \in 1..Len(attempts) :
        attempts[i].outcome = "fault" =>
            /\ i = Len(attempts)
            /\ dl_pc = "done" => dl_exit \notin {0, 1}

Succeeded == {i \in 1..Len(attempts) : attempts[i].outcome = "ok"}

\* C17: the attempts are made in the order .pt, .onnx, .bin for the requested
\* voice, no attempt follows a success, at most one file is fetched, and main
\* returns 0 exactly when some attempt succeeded.
C17_OrderedStopAtFirstSuccess ==
    /\ Len(attempts) <= 3
    /\ \A i \in 1..Len(attempts) :
          /\ attempts[i].ext = <<".pt", ".onnx", ".bin">>[i]
          /\ attempts[i].filename = "voices/" \o args_voice \o attempts[i].ext
          /\ attempts[i].outcome = "ok" => i = Len(attempts)
    /\ Cardinality(Succeeded) <= 1
    /\ dl_pc = "done" => (dl_exit = 0 <=> Succeeded # {})
    /\ dl_pc = "done" => dl_exit \in {0, 1}

C17_Witness ==
    /\ dl_pc = "done" /\ dl_exit = 0
    /\ Len(attempts) = 2
    /\ attempts[2].outcome = "ok"
    /\ ("voices/" \o args_voice \o ".bin") \in repo_files

(***************************************************************************)
(* Tokens.  A token is [tag, text, start_ts, end_ts]; text is a sequence   *)
(* of characters; a timestamp is <<>> for Python's None and <<ms>> for a   *)
(* number.                                                                 *)
(***************************************************************************)

T(tag, text, start_ts, end_ts) ==
    [tag |-> tag, text |-> text, start_ts |-> start_ts, end_ts |-> end_ts]

\* lib/word_timing.py line 9
PUNCTUATION_TAGS == {".", ",", "!", "?", ":", ";", "-", "(", ")"}

\* the list literal of kokoro_say.py line 53
InlinePunctuationTags == <<".", ",", "!", "?", ":", ";", "-", "(", ")">>

\* the characters str.strip() removes, among those the model draws
Whitespace == {" ", "\t", "\n"}

RECURSIVE lstrip(_)
lstrip(text) ==
    IF text # <<>> /\ Head(text) \in Whitespace THEN lstrip(Tail(text)) ELSE text

RECURSIVE rstrip(_)
rstrip(text) ==
    IF text # <<>> /\ text[Len(text)] \in Whitespace
    THEN rstrip(SubSeq(text, 1, Len(text) - 1))
    ELSE text

\* str.strip()
strip(text) == rstrip(lstrip(text))

\* the tag tested, the length of the text forgotten
is_punctuation_tag_only(token) == token.tag \in PUNCTUATION_TAGS

\* lib/word_timing.py lines 12-27
is_punctuation_only(token) ==
    token.tag \in PUNCTUATION_TAGS /\ Len(strip(token.text)) <= 1

\* the test on the tag alone, the length of the text forgotten
inline_tag_only(token) ==
    \E i \in 1..Len(InlinePunctuationTags) : InlinePunctuationTags[i] = token.tag

\* kokoro_say.py line 53
inline_is_punctuation_only(token) ==
    /\ \E i \in 1..Len(InlinePunctuationTags) : InlinePunctuationTags[i] = token.tag
    /\ Len(strip(token.text)) <= 1

\* `token.start_ts is None or token.end_ts is None`
missing_timestamp(token) == token.start_ts = <<>> \/ token.end_ts = <<>>

\* the entry with the chunk-relative timestamps, the offset forgotten
timing_entry_unshifted(token, time) ==
    [word |-> token.text, start |-> token.start_ts[1], end |-> token.end_ts[1]]

\* the entry with the end left chunk-relative
timing_entry_end_unshifted(token, time) ==
    [word |-> token.text, start |-> time + token.start_ts[1], end |-> token.end_ts[1]]

\* the dict appended to the timings
timing_entry(token, time) ==
    [word |-> token.text, start |-> time + token.start_ts[1], end |-> time + token.end_ts[1]]

\* kokoro_say.py lines 53-65: the body of the token loop
inline_scan_token(timings, token, time) ==
    IF inline_is_punctuation_only(token) THEN timings
    ELSE IF missing_timestamp(token) THEN timings
    ELSE Append(timings, timing_entry(token, time))

\* kokoro_say.py lines 52-65: the token loop over one result
RECURSIVE inline_scan(_, _, _)
inline_scan(timings, tokens, time) ==
    IF tokens = <<>> THEN timings
    ELSE inline_scan(inline_scan_token(timings, Head(tokens), time), Tail(tokens), time)

\* lib/word_timing.py line 50
lib_missing_timestamp(token) == token.start_ts = <<>> \/ token.end_ts = <<>>

\* lib/word_timing.py lines 53-57
lib_timing_entry(token, time) ==
    [word |-> token.text, start |-> time + token.start_ts[1], end |-> time + token.end_ts[1]]

\* lib/word_timing.py lines 43-59
RECURSIVE extract_word_timings(_, _)
extract_word_timings(tokens, time) ==
    IF tokens = <<>> THEN <<>>
    ELSE (IF is_punctuation_only(Head(tokens)) THEN <<>>
          ELSE IF lib_missing_timestamp(Head(tokens)) THEN <<>>
          ELSE <<lib_timing_entry(Head(tokens), time)>>)
         \o extract_word_timings(Tail(tokens), time)

(***************************************************************************)
(* kokoro_say.py                                                           *)
(***************************************************************************)

SampleRate == 24000

\* most results the pipeline yields for one text
MaxChunks == 2
\* most tokens the pipeline yields for one text, over all its results
MaxTokens == 3

\* sample counts of a result's audio: 0.5 s and 1 s
SampleChoices == {12000, 24000}

\* the tokens the pipeline draws from
TokenPool == {
    T("NN", <<"H", "e", "l", "l", "o">>, <<0>>, <<400>>),
    T(",",  <<",">>,                     <<400>>, <<450>>),
    T(".",  <<".">>,                     <<>>, <<>>),
    T(".",  <<"M", "r", ".">>,           <<750>>, <<900>>),
    T("UH", <<"u", "m">>,                <<100>>, <<>>) }

TokenLists(n) == UNION {[1..k -> TokenPool] : k \in 0..n}

RECURSIVE TokenCount(_)
TokenCount(cs) == IF cs = <<>> THEN 0 ELSE Len(Head(cs).tokens) + TokenCount(Tail(cs))

\* the duration at a sample rate of 48000 Hz
chunk_duration_48k(samples) == (samples * 1000) \div 48000

\* lines 67-68, in ms
chunk_duration(samples) == (samples * 1000) \div SampleRate

\* `=` in place of `+=`
advance_time_assign(time, chunk) == chunk_duration(chunk.samples)

\* line 69
advance_time(time, chunk) == time + chunk_duration(chunk.samples)

\* the test for an empty result left out
no_audio_unchecked(chunk_list) == FALSE

\* the buffer put in front of the list
append_audio_front(chunk_list, samples) == <<samples>> \o chunk_list

\* line 50
append_audio(chunk_list, samples) == Append(chunk_list, samples)

\* line 71
no_audio(chunk_list) == chunk_list = <<>>

\* what main returns from `except Exception` (lines 83-85)
exception_exit(stage) == 3

SayInit ==
    /\ say_pc = "snapshot"
    /\ args_timings = FALSE
    /\ chunks = <<>>
    /\ tok_i = 1
    /\ audio_chunks = <<>>
    /\ word_timings = <<>>
    /\ current_time = 0
    /\ wav_file = <<>>
    /\ timings_file = <<>>
    /\ fail_stage = "none"
    /\ say_exit = -1

\* np.concatenate over the sample counts
RECURSIVE SumSeq(_)
SumSeq(ns) == IF ns = <<>> THEN 0 ELSE Head(ns) + SumSeq(Tail(ns))

\* a handler that saves what was assembled before it returns
SayRaiseFlushing(stage) ==
    /\ fail_stage' = stage
    /\ say_exit' = exception_exit(stage)
    /\ say_pc' = "done"
    /\ wav_file' = IF audio_chunks = <<>> THEN <<>> ELSE <<SumSeq(audio_chunks)>>
    /\ UNCHANGED timings_file

\* an exception raised before the writes, at `stage`: lines 83-85
SayRaise(stage) ==
    /\ fail_stage' = stage
    /\ say_exit' = exception_exit(stage)
    /\ say_pc' = "done"
    /\ UNCHANGED <<wav_file, timings_file>>

\* lines 34-43: snapshot_download returns or raises
SaySnapshotDownload ==
    /\ say_pc = "snapshot"
    /\ \/ /\ say_pc' = "pipeline"
          /\ UNCHANGED <<fail_stage, say_exit, wav_file, timings_file>>
       \/ SayRaise("materialize")
    /\ UNCHANGED <<args_timings, chunks, tok_i, audio_chunks, word_timings,
                   current_time>>
    /\ UNCHANGED <<dlVars, clsVars, cacheVars, nameVars, lrVars, kvVars, pfVars, matVars>>

\* lines 44-47: KPipeline(...) returns or raises
SayKPipeline ==
    /\ say_pc = "pipeline"
    /\ \/ /\ say_pc' = "iterate"
          /\ audio_chunks' = <<>>
          /\ word_timings' = <<>>
          /\ current_time' = 0
          /\ UNCHANGED <<fail_stage, say_exit, wav_file, timings_file>>
       \/ /\ SayRaise("pipeline")
          /\ UNCHANGED <<audio_chunks, word_timings, current_time>>
    /\ UNCHANGED <<args_timings, chunks, tok_i>>
    /\ UNCHANGED <<dlVars, clsVars, cacheVars, nameVars, lrVars, kvVars, pfVars, matVars>>

\* lines 49-50: the generator yields the next result, is exhausted, or raises
SayNextChunk ==
    /\ say_pc = "iterate"
    /\ \/ /\ Len(chunks) < MaxChunks
          /\ \E samples \in SampleChoices :
             \E tokens \in TokenLists(MaxTokens - TokenCount(chunks)) :
                /\ chunks' = Append(chunks, [samples |-> samples, tokens |-> tokens])
                /\ audio_chunks' = append_audio(audio_chunks, samples)
          /\ tok_i' = 1
          /\ say_pc' = "tokens"
          /\ UNCHANGED <<fail_stage, say_exit, wav_file, timings_file>>
       \/ /\ say_pc' = "after_loop"
          /\ UNCHANGED <<chunks, audio_chunks, tok_i, fail_stage, say_exit,
                         wav_file, timings_file>>
       \/ /\ SayRaise("iterate")
          /\ UNCHANGED <<chunks, audio_chunks, tok_i>>
    /\ UNCHANGED <<args_timings, word_timings, current_time>>
    /\ UNCHANGED <<dlVars, clsVars, cacheVars, nameVars, lrVars, kvVars, pfVars, matVars>>

\* lines 52-65: one iteration of `for token in result.tokens`
SayScanToken ==
    /\ say_pc = "tokens"
    /\ tok_i <= Len(chunks[Len(chunks)].tokens)
    /\ word_timings' =
           inline_scan_token(word_timings, chunks[Len(chunks)].tokens[tok_i], current_time)
    /\ tok_i' = tok_i + 1
    /\ UNCHANGED <<say_pc, args_timings, chunks, audio_chunks, current_time,
                   wav_file, timings_file, fail_stage, say_exit>>
    /\ UNCHANGED <<dlVars, clsVars, cacheVars, nameVars, lrVars, kvVars, pfVars, matVars>>

\* lines 67-69: the token loop is over, the offset advances
SayAdvance ==
    /\ say_pc = "tokens"
    /\ tok_i > Len(chunks[Len(chunks)].tokens)
    /\ current_time' = advance_time(current_time, chunks[Len(chunks)])
    /\ say_pc' = "iterate"
    /\ UNCHANGED <<args_timings, chunks, tok_i, audio_chunks, word_timings,
                   wav_file, timings_file, fail_stage, say_exit>>
    /\ UNCHANGED <<dlVars, clsVars, cacheVars, nameVars, lrVars, kvVars, pfVars, matVars>>

\* lines 71-85: after the loop.  A write that raises may leave its file behind.
SayFinish ==
    /\ say_pc = "after_loop"
    /\ say_pc' = "done"
    /\ IF no_audio(audio_chunks)
       THEN /\ say_exit' = 2
            /\ UNCHANGED <<wav_file, timings_file, fail_stage, args_timings>>
       ELSE LET audio == SumSeq(audio_chunks) IN
            \/ \* sf.write raises
               /\ wav_file' \in {<<>>, <<audio>>}
               /\ fail_stage' = "write_wav"
               /\ say_exit' = exception_exit("write_wav")
               /\ UNCHANGED <<timings_file, args_timings>>
            \/ \* sf.write returns, no --timings
               /\ args_timings' = FALSE
               /\ wav_file' = <<audio>>
               /\ say_exit' = 0
               /\ UNCHANGED <<timings_file, fail_stage>>
            \/ \* sf.write returns, writing the timings raises
               /\ args_timings' = TRUE
               /\ wav_file' = <<audio>>
               /\ timings_file' \in {<<>>, <<word_timings>>}
               /\ fail_stage' = "write_timings"
               /\ say_exit' = exception_exit("write_timings")
            \/ \* both written
               /\ args_timings' = TRUE
               /\ wav_file' = <<audio>>
               /\ timings_file' = <<word_timings>>
               /\ say_exit' = 0
               /\ UNCHANGED fail_stage
    /\ UNCHANGED <<chunks, tok_i, audio_chunks, word_timings, current_time>>
    /\ UNCHANGED <<dlVars, clsVars, cacheVars, nameVars, lrVars, kvVars, pfVars, matVars>>

SayNext ==
    \/ SaySnapshotDownload
    \/ SayKPipeline
    \/ SayNextChunk
    \/ SayScanToken
    \/ SayAdvance
    \/ SayFinish

InitSay == DlIdle /\ SayInit /\ ClsIdle /\ CacheIdle /\ OthersIdle

SpecSay == InitSay /\ [][SayNext]_vars

(***************************************************************************)
(* What the claims about kokoro_say speak of, written from their words.    *)
(***************************************************************************)

NonWhitespaceAt(text) == {i \in 1..Len(text) : text[i] \notin {" ", "\t", "\n"}}

Max(S) == CHOOSE x \in S : \A y \in S : x >= y

\* length of the text with surrounding whitespace removed
TrimmedLength(text) ==
    IF NonWhitespaceAt(text) = {} THEN 0
    ELSE Max(NonWhitespaceAt(text)) - Min(NonWhitespaceAt(text)) + 1

NineTags == {".", ",", "!", "?", ":", ";", "-", "(", ")"}

PunctuationOnly(token) == token.tag \in NineTags /\ TrimmedLength(token.text) <= 1

LacksTimestamp(token) == token.start_ts = <<>> \/ token.end_ts = <<>>

Emittable(token) == ~PunctuationOnly(token) /\ ~LacksTimestamp(token)

\* sampleCount / 24000, in ms
DurationMs(samples) == (samples * 1000) \div 24000

\* E_k: the sum of the durations of the chunks before chunk k
RECURSIVE OffsetBefore(_)
OffsetBefore(k) ==
    IF k <= 1 THEN 0 ELSE OffsetBefore(k - 1) + DurationMs(chunks[k - 1].samples)

\* the tokens of chunk k the token loop has been through
ScannedOf(k) ==
    IF k = Len(chunks) /\ say_pc = "tokens"
    THEN SubSeq(chunks[k].tokens, 1, tok_i - 1)
    ELSE chunks[k].tokens

RECURSIVE ExpectedOfTokens(_, _)
ExpectedOfTokens(tokens, offset) ==
    IF tokens = <<>> THEN <<>>
    ELSE (IF Emittable(Head(tokens))
          THEN <<[word  |-> Head(tokens).text,
                  start |-> offset + Head(tokens).start_ts[1],
                  end   |-> offset + Head(tokens).end_ts[1]]>>
          ELSE <<>>) \o ExpectedOfTokens(Tail(tokens), offset)

RECURSIVE ExpectedUpTo(_)
ExpectedUpTo(k) ==
    IF k = 0 THEN <<>>
    ELSE ExpectedUpTo(k - 1) \o ExpectedOfTokens(ScannedOf(k), OffsetBefore(k))

\* C2: every emitted WordTiming of a token of chunk k is the token's text
\* with its start and end shifted by E_k, the durations of chunks 0..k-1
\* only; while chunk k's tokens are scanned the running offset is still E_k.
C2_TimingsShiftedByEarlierChunks ==
    /\ word_timings = ExpectedUpTo(Len(chunks))
    /\ say_pc = "tokens" => current_time = OffsetBefore(Len(chunks))

C2_Witness ==
    /\ say_pc = "done" /\ say_exit = 0
    /\ Len(chunks) = 2 /\ chunks[1].samples = 24000
    /\ word_timings =
         << [word |-> <<"H", "e", "l", "l", "o">>, start |-> 0, end |-> 400],
            [word |-> <<"M", "r", ".">>, start |-> 1750, end |-> 1900] >>

RECURSIVE Flatten(_)
Flatten(k) == IF k = 0 THEN <<>> ELSE Flatten(k - 1) \o ScannedOf(k)

Scanned == Flatten(Len(chunks))

CountIn(seq, P(_)) == Cardinality({i \in 1..Len(seq) : P(seq[i])})

LacksTimestampOnly(token) == ~PunctuationOnly(token) /\ LacksTimestamp(token)

PunctuationAndNoTimestamp(token) == PunctuationOnly(token) /\ LacksTimestamp(token)

\* C3 as stated: the number of WordTimings equals the number of tokens minus
\* the punctuation-only tokens minus the tokens lacking a timestamp.
C3_CountAsStated ==
    Len(word_timings) =
        Len(Scanned) - CountIn(Scanned, PunctuationOnly) - CountIn(Scanned, LacksTimestamp)

\* C3 amended: the number of WordTimings equals the number of tokens minus
\* the punctuation-only tokens minus the tokens that are not punctuation-only
\* and lack a timestamp.
C3_CountAmended ==
    Len(word_timings) =
        Len(Scanned) - CountIn(Scanned, PunctuationOnly)
                     - CountIn(Scanned, LacksTimestampOnly)

C3_Witness ==
    /\ say_pc = "done" /\ say_exit = 0
    /\ CountIn(Scanned, PunctuationAndNoTimestamp) = 1
    /\ CountIn(Scanned, LacksTimestampOnly) = 1
    /\ Len(word_timings) = 1

HasStart(token) == token.start_ts # <<>>

ChunkOrdered(chunk) ==
    \A i, j \in 1..Len(chunk.tokens) :
        (i < j /\ HasStart(chunk.tokens[i]) /\ HasStart(chunk.tokens[j]))
            => chunk.tokens[i].start_ts[1] <= chunk.tokens[j].start_ts[1]

StartsWithinAudio(chunk) ==
    \A i \in 1..Len(chunk.tokens) :
        HasStart(chunk.tokens[i]) =>
            /\ 0 <= chunk.tokens[i].start_ts[1]
            /\ chunk.tokens[i].start_ts[1] <= DurationMs(chunk.samples)

StartsNonDecreasing ==
    \A i \in 1..(Len(word_timings) - 1) : word_timings[i].start <= word_timings[i + 1].start

\* C4 as stated: the starts are non-decreasing in emission order whenever
\* each chunk's own tokens have non-decreasing starts, nothing else assumed.
C4_MonotoneAsStated ==
    (\A k \in 1..Len(chunks) : ChunkOrdered(chunks[k])) => StartsNonDecreasing

\* C4 amended: the starts are non-decreasing in emission order whenever each
\* chunk's own tokens have non-decreasing starts and every start lies within
\* its chunk's audio (0 <= start <= the chunk's duration).
C4_MonotoneWithinAudio ==
    (\A k \in 1..Len(chunks) : ChunkOrdered(chunks[k]) /\ StartsWithinAudio(chunks[k]))
        => StartsNonDecreasing

C4_Witness ==
    /\ say_pc = "done" /\ say_exit = 0
    /\ \A k \in 1..Len(chunks) : ChunkOrdered(chunks[k]) /\ StartsWithinAudio(chunks[k])
    /\ Len(chunks) = 2
    /\ Len(word_timings) = 3
    /\ word_timings[2].start = 750
    /\ word_timings[3].start = 1000

\* the chunks whose duration has been added to the running offset
Advanced == IF say_pc = "tokens" THEN Len(chunks) - 1 ELSE Len(chunks)

\* C5: the running offset starts at 0 and after every chunk equals the sum of
\* sampleCount / 24000 over the chunks processed, whatever tokens they held.
C5_OffsetIsSumOfDurations ==
    current_time = OffsetBefore(Advanced + 1)

C5_Witness ==
    /\ say_pc = "done" /\ say_exit = 0
    /\ Len(chunks) = 2
    /\ chunks[1].tokens = <<>>
    /\ Len(chunks[2].tokens) = 3
    /\ word_timings = <<>>
    /\ current_time = 1500

\* C6: a pipeline that yields nothing ends in exit code 2 with neither file
\* written; exit code 0 is never reached with no chunk.
C6_EmptyOutput ==
    /\ (say_pc = "done" /\ fail_stage = "none" /\ chunks = <<>>)
           => (say_exit = 2 /\ wav_file = <<>> /\ timings_file = <<>>)
    /\ say_exit = 0 => chunks # <<>>

C6_Witness ==
    say_pc = "done" /\ chunks = <<>> /\ say_exit = 2 /\ fail_stage = "none"

\* C7: a failure of materialization, of the pipeline's construction or of
\* the chunk iteration ends in exit code 3 with neither file written.
C7_NoPartialResult ==
    fail_stage \in {"materialize", "pipeline", "iterate"}
        => (say_exit = 3 /\ wav_file = <<>> /\ timings_file = <<>>)

C7_Witness ==
    /\ fail_stage = "iterate" /\ say_pc = "done"
    /\ Len(chunks) = 2 /\ word_timings # <<>>

\* the number of samples of the chunks before chunk k
RECURSIVE SamplesBefore(_)
SamplesBefore(k) == IF k <= 1 THEN 0 ELSE SamplesBefore(k - 1) + chunks[k - 1].samples

RECURSIVE ExpectedAtPositions(_)
ExpectedAtPositions(k) ==
    IF k = 0 THEN <<>>
    ELSE ExpectedAtPositions(k - 1)
         \o ExpectedOfTokens(ScannedOf(k), (SamplesBefore(k) * 1000) \div 24000)

\* C19: the chunk list holds the chunks' audio in arrival order; after every
\* fully processed chunk the running offset, in samples, is the number of
\* samples in the list; the audio written has that length; and every
\* WordTiming of chunk k is shifted by the position at which chunk k's
\* samples begin in the final audio.
C19_OffsetIsAudioPosition ==
    /\ audio_chunks = [k \in 1..Len(chunks) |-> chunks[k].samples]
    /\ current_time * 24000 = SamplesBefore(Advanced + 1) * 1000
    /\ wav_file # <<>> =>
          /\ wav_file[1] = SamplesBefore(Len(chunks) + 1)
          /\ current_time * 24000 = wav_file[1] * 1000
    /\ word_timings = ExpectedAtPositions(Len(chunks))

C19_Witness ==
    /\ say_pc = "done" /\ say_exit = 0
    /\ audio_chunks = <<24000, 12000>>
    /\ wav_file = <<36000>>
    /\ current_time = 1500
    /\ Len(word_timings) = 2
    /\ word_timings[2].start = 1750

\* extract_word_timings over the chunks so far, each called with the sum of
\* the durations of the chunks before it, the results joined in order
RECURSIVE LibraryTimingsUpTo(_)
LibraryTimingsUpTo(k) ==
    IF k = 0 THEN <<>>
    ELSE LibraryTimingsUpTo(k - 1) \o extract_word_timings(ScannedOf(k), OffsetBefore(k))

\* C21: the list kokoro_say builds is, at every point of the run, the
\* concatenation over the chunks in order of extract_word_timings(tokens,
\* offset before the chunk): same words, starts, ends and order; and the
\* inline punctuation test agrees with is_punctuation_only on every token
\* (tested for each chunk when the pipeline yields it).
C21_InlineLoopIsLibraryFunction ==
    /\ word_timings = LibraryTimingsUpTo(Len(chunks))
    /\ (say_pc = "tokens" /\ tok_i = 1) =>
          \A i \in DOMAIN chunks[Len(chunks)].tokens :
             inline_is_punctuation_only(chunks[Len(chunks)].tokens[i])
                <=> is_punctuation_only(chunks[Len(chunks)].tokens[i])

\* the second chunk holds a token dropped as punctuation and one kept
C21_Witness ==
    /\ say_pc = "done" /\ say_exit = 0
    /\ Len(chunks) = 2 /\ chunks[1].samples = 12000
    /\ chunks[2].tokens = <<T(",", <<",">>, <<400>>, <<450>>),
                            T(".", <<"M", "r", ".">>, <<750>>, <<900>>)>>
    /\ word_timings =
         << [word |-> <<"H", "e", "l", "l", "o">>, start |-> 0, end |-> 400],
            [word |-> <<"M", "r", ".">>, start |-> 1250, end |-> 1400] >>
    /\ word_timings = extract_word_timings(chunks[1].tokens, 0)
                         \o extract_word_timings(chunks[2].tokens, 500)

(***************************************************************************)
(* The classification of a token: extract_word_timings of the library and  *)
(* the token loop of kokoro_say, each run over the same token list.        *)
(***************************************************************************)

\* longest token text drawn
MaxTextLen == 3

Characters == {" ", "\t", ".", "M", "r"}

Texts == UNION {[1..n -> Characters] : n \in 0..MaxTextLen}

\* the nine punctuation tags, a word tag and the symbol tag
ClsTags == PUNCTUATION_TAGS \cup {"NN", "SYM"}

ClsTokens ==
    {T(tag, text, ts[1], ts[2]) :
        tag \in ClsTags, text \in Texts, ts \in {<< <<0>>, <<400>> >>, << <<>>, <<400>> >>}}

ClsTokenLists == {<<t>> : t \in ClsTokens} \cup TokenLists(2)

ClsInit ==
    /\ cls_pc = "call"
    /\ cls_tokens \in ClsTokenLists
    /\ cls_time \in {0, 500}
    /\ cls_out = <<>>
    /\ cls_inline = <<>>

\* extract_word_timings(tokens, current_time) returns
ClsExtract ==
    /\ cls_pc = "call"
    /\ cls_out' = extract_word_timings(cls_tokens, cls_time)
    /\ cls_pc' = "inline"
    /\ UNCHANGED <<cls_tokens, cls_time, cls_inline>>
    /\ UNCHANGED <<dlVars, sayVars, cacheVars, nameVars, lrVars, kvVars, pfVars, matVars>>

\* the loop of kokoro_say.py lines 52-65 over the same tokens
ClsInline ==
    /\ cls_pc = "inline"
    /\ cls_inline' = inline_scan(<<>>, cls_tokens, cls_time)
    /\ cls_pc' = "returned"
    /\ UNCHANGED <<cls_tokens, cls_time, cls_out>>
    /\ UNCHANGED <<dlVars, sayVars, cacheVars, nameVars, lrVars, kvVars, pfVars, matVars>>

ClsNext == ClsExtract \/ ClsInline

InitClassify == DlIdle /\ SayIdle /\ ClsInit /\ CacheIdle /\ OthersIdle

SpecClassify == InitClassify /\ [][ClsNext]_vars

Words(timings) == [i \in 1..Len(timings) |-> timings[i].word]

RECURSIVE KeptWords(_)
KeptWords(tokens) ==
    IF tokens = <<>> THEN <<>>
    ELSE (IF PunctuationOnly(Head(tokens)) \/ LacksTimestamp(Head(tokens))
          THEN <<>> ELSE <<Head(tokens).text>>) \o KeptWords(Tail(tokens))

\* C9: a token is dropped as punctuation-only exactly when its tag is one of
\* the nine tags and its text without surrounding whitespace has length <= 1;
\* every other token that has both timestamps is emitted, by the library
\* function and by the loop of kokoro_say alike.
C9_PunctuationOnlyExactly ==
    cls_pc = "returned" =>
        /\ Words(cls_out) = KeptWords(cls_tokens)
        /\ Words(cls_inline) = KeptWords(cls_tokens)

C9_Witness ==
    /\ cls_pc = "returned"
    /\ cls_tokens = <<T(".", <<"M", "r", ".">>, <<0>>, <<400>>)>>
    /\ Len(cls_out) = 1 /\ Len(cls_inline) = 1

\* a single punctuation character under a tag outside the set is kept
C9_WitnessOtherTag ==
    /\ cls_pc = "returned"
    /\ cls_tokens = <<T("SYM", <<".">>, <<0>>, <<400>>)>>
    /\ Len(cls_out) = 1 /\ Len(cls_inline) = 1

\* surrounding whitespace does not count towards the length
C9_WitnessTrimmed ==
    /\ cls_pc = "returned"
    /\ cls_tokens = <<T("?", <<" ", ".", "\t">>, <<0>>, <<400>>)>>
    /\ cls_out = <<>> /\ cls_inline = <<>>

(***************************************************************************)
(* kokoro_list_remote.py: find_downloaded_voices_in_cache                  *)
(* A directory is a path string; a file name is a sequence of characters.  *)
(***************************************************************************)

\* str.endswith
endswith(name, suffix) ==
    /\ Len(name) >= Len(suffix)
    /\ SubSeq(name, Len(name) - Len(suffix) + 1, Len(name)) = suffix

\* lines 14-15
is_voice_file(filename) ==
    \/ endswith(filename, <<".", "p", "t">>)
    \/ endswith(filename, <<".", "o", "n", "n", "x">>)
    \/ endswith(filename, <<".", "b", "i", "n">>)

\* str.rfind of one character: 0 when it does not occur
rfind(name, ch) ==
    IF \E i \in 1..Len(name) : name[i] = ch
    THEN CHOOSE i \in 1..Len(name) : name[i] = ch /\ \A j \in (i + 1)..Len(name) : name[j] # ch
    ELSE 0

\* os.path.basename: what follows the last "/"
basename(path) == SubSeq(path, rfind(path, "/") + 1, Len(path))

\* os.path.splitext(p)[0]: the extension starts at the last dot of the last
\* component, unless only dots precede it there
splitext_root(path) ==
    LET sepIndex == rfind(path, "/")
        dotIndex == rfind(path, ".")
    IN  IF dotIndex > sepIndex
           /\ \E k \in (sepIndex + 1)..(dotIndex - 1) : path[k] # "."
        THEN SubSeq(path, 1, dotIndex - 1)
        ELSE path

\* lines 10-11
get_voice_name_from_path(path) == splitext_root(basename(path))

\* the characters in use, by increasing code point
CodePointOrder ==
    <<"\t", "\n", " ", "*", "-", ".", "/", "0", "1", "_", "a", "b", "c", "d",
      "e", "f", "g", "h", "i", "j", "k", "l", "m", "n", "o", "p", "r", "s",
      "t", "v", "x", "y">>

\* ord, up to a monotone renumbering
ord(ch) == CHOOSE i \in DOMAIN CodePointOrder : CodePointOrder[i] = ch

\* str.__lt__: the order of the first differing character, a proper prefix first
str_lt(a, b) ==
    \E k \in 0..Len(a) :
       /\ k <= Len(b)
       /\ SubSeq(a, 1, k) = SubSeq(b, 1, k)
       /\ \/ k = Len(a) /\ k < Len(b)
          \/ k < Len(a) /\ k < Len(b) /\ ord(a[k + 1]) < ord(b[k + 1])

\* sorted() of a set of strings
RECURSIVE sorted(_)
sorted(strs) ==
    IF strs = {} THEN <<>>
    ELSE LET least == CHOOSE x \in strs : \A y \in strs \ {x} : str_lt(x, y)
         IN  <<least>> \o sorted(strs \ {least})

\* set() of a list
set(list) == {list[i] : i \in DOMAIN list}

\* os.path.join of two components
join(a, b) == a \o "/" \o b

\* a test that lets every path through
isdir_unchecked(dirs, path) == TRUE

\* os.path.isdir
isdir(dirs, path) == path \in dirs

\* os.listdir: the entries, or an exception
listdir_outcomes(dirs, path) ==
    IF path \in dirs THEN {"ok", "PermissionError"} ELSE {"FileNotFoundError"}

\* os.path.expanduser("~/.cache/huggingface/hub")
DefaultCacheDir == "/home/user/.cache/huggingface/hub"

\* lines 20-22
cache_dir(e) ==
    IF e.HF_HUB_CACHE # "" THEN e.HF_HUB_CACHE
    ELSE IF e.HF_HOME # "" THEN e.HF_HOME
    ELSE DefaultCacheDir

\* line 24: repo.replace("/", "--"), the repo id given as its components
RECURSIVE repo_folder(_)
repo_folder(repo) ==
    IF Len(repo) = 1 THEN repo[1] ELSE repo[1] \o "--" \o repo_folder(Tail(repo))

\* --repo, as the components between the slashes
ArgsRepo == <<"hexgrad", "Kokoro-82M">>

\* line 25
models_path(e) == join(cache_dir(e), "models--" \o repo_folder(ArgsRepo))

\* line 30
snapshots_path(e) == join(models_path(e), "snapshots")

\* line 35
voices_dir(e, snapshot) == join(join(snapshots_path(e), snapshot), "voices")

\* most files in one voices directory
MaxDirFiles == 2

Revisions == {"r1", "r2"}

FileNames == {
    <<"a", ".", "p", "t">>,
    <<"a", ".", "o", "n", "n", "x">>,
    <<"b", ".", "b", "i", "n">>,
    <<"n", ".", "t", "x", "t">> }

DirContents == {fset \in SUBSET FileNames : Cardinality(fset) <= MaxDirFiles}

EnvChoices == [HF_HUB_CACHE : {"", "/hub"}, HF_HOME : {"", "/hf"}]

CacheRoots == {"/hub", "/hf", DefaultCacheDir}

\* the directories of a hub cache at `root`, down to `depth` levels:
\* the root, the models-- folder, snapshots
CacheChain(root, depth) ==
    LET models == join(root, "models--" \o repo_folder(ArgsRepo)) IN
    (IF depth >= 1 THEN {root} ELSE {})
    \cup (IF depth >= 2 THEN {models} ELSE {})
    \cup (IF depth >= 3 THEN {join(models, "snapshots")} ELSE {})

\* the disk holds at most one hub cache, at any of the three places, with
\* any revisions under snapshots/, each with or without a voices directory
CacheInit ==
    /\ env \in EnvChoices
    /\ \E root \in CacheRoots, depth \in 0..3 :
         LET snaps == join(join(root, "models--" \o repo_folder(ArgsRepo)), "snapshots") IN
         \E revs \in (IF depth = 3 THEN SUBSET Revisions ELSE {{}}) :
         \E with_voices \in SUBSET revs :
         \E contents \in [{join(join(snaps, r), "voices") : r \in with_voices} -> DirContents] :
            /\ fs_dirs = CacheChain(root, depth)
                           \cup {join(snaps, r) : r \in revs}
                           \cup DOMAIN contents
            /\ fs_files = contents
    /\ cache_pc = "start"
    /\ pending = {}
    /\ cache_downloaded = <<>>
    /\ cache_error = "none"
    /\ cache_reported = <<>>

\* a listing that stops after one entry
listdir_first(dirs, path) ==
    LET entries == {r \in Revisions : join(path, r) \in dirs}
    IN  {r \in entries : r = CHOOSE x \in entries : TRUE}

\* os.listdir(snapshots_path): the entries of snapshots/
listdir_entries(dirs, path) == {r \in Revisions : join(path, r) \in dirs}

\* lines 19-28
CacheStart ==
    /\ cache_pc = "start"
    /\ cache_downloaded' = <<>>
    /\ IF ~isdir(fs_dirs, models_path(env))
       THEN cache_pc' = "done"
       ELSE cache_pc' = "snapshots"
    /\ UNCHANGED <<env, fs_dirs, fs_files, pending, cache_error>>
    /\ UNCHANGED <<dlVars, sayVars, clsVars, cache_reported, nameVars, lrVars, kvVars, pfVars, matVars>>

\* lines 30-34: the test of snapshots/, then os.listdir(snapshots_path)
CacheSnapshots ==
    /\ cache_pc = "snapshots"
    /\ IF ~isdir(fs_dirs, snapshots_path(env))
       THEN /\ cache_pc' = "done"
            /\ UNCHANGED <<pending, cache_error>>
       ELSE \E outcome \in listdir_outcomes(fs_dirs, snapshots_path(env)) :
            IF outcome = "ok"
            THEN /\ pending' = listdir_entries(fs_dirs, snapshots_path(env))
                 /\ cache_pc' = "scan"
                 /\ UNCHANGED cache_error
            ELSE /\ cache_error' = outcome
                 /\ cache_pc' = "done"
                 /\ UNCHANGED pending
    /\ UNCHANGED <<env, fs_dirs, fs_files, cache_downloaded>>
    /\ UNCHANGED <<dlVars, sayVars, clsVars, cache_reported, nameVars, lrVars, kvVars, pfVars, matVars>>

\* the orders in which os.listdir may return a set of names
Orderings(fset) ==
    {seq \in [1..Cardinality(fset) -> fset] : \A i, j \in DOMAIN seq : i # j => seq[i] # seq[j]}

\* lines 37-39: the voice names of a listing, in its order
RECURSIVE voice_names(_)
voice_names(listing) ==
    IF listing = <<>> THEN <<>>
    ELSE (IF is_voice_file(Head(listing))
          THEN <<get_voice_name_from_path(Head(listing))>>
          ELSE <<>>) \o voice_names(Tail(listing))

\* lines 34-39: one iteration of `for snapshot in os.listdir(snapshots_path)`
CacheScan ==
    /\ cache_pc = "scan"
    /\ \E snapshot \in pending :
         /\ pending' = pending \ {snapshot}
         /\ IF ~isdir(fs_dirs, voices_dir(env, snapshot))
            THEN UNCHANGED <<cache_downloaded, cache_error, cache_pc>>
            ELSE \E outcome \in listdir_outcomes(fs_dirs, voices_dir(env, snapshot)) :
                 IF outcome = "ok"
                 THEN /\ \E listing \in Orderings(fs_files[voices_dir(env, snapshot)]) :
                           cache_downloaded' = cache_downloaded \o voice_names(listing)
                      /\ UNCHANGED <<cache_error, cache_pc>>
                 ELSE /\ cache_error' = outcome
                      /\ cache_pc' = "done"
                      /\ UNCHANGED cache_downloaded
    /\ UNCHANGED <<env, fs_dirs, fs_files>>
    /\ UNCHANGED <<dlVars, sayVars, clsVars, cache_reported, nameVars, lrVars, kvVars, pfVars, matVars>>

\* line 41
CacheReturn ==
    /\ cache_pc = "scan"
    /\ pending = {}
    /\ cache_pc' = "done"
    /\ UNCHANGED <<env, fs_dirs, fs_files, pending, cache_downloaded, cache_error>>
    /\ UNCHANGED <<dlVars, sayVars, clsVars, cache_reported, nameVars, lrVars, kvVars, pfVars, matVars>>

\* main, lines 65-75: the list returned becomes the "downloaded" field; an
\* exception of the scan reaches the handler of line 73 and nothing is printed
CacheReport ==
    /\ cache_pc = "done"
    /\ IF cache_error = "none"
       THEN /\ cache_reported' = <<sorted(set(cache_downloaded))>>
            /\ cache_pc' = "printed"
       ELSE /\ cache_pc' = "failed"
            /\ UNCHANGED cache_reported
    /\ UNCHANGED <<env, fs_dirs, fs_files, pending, cache_downloaded, cache_error>>
    /\ UNCHANGED <<dlVars, sayVars, clsVars, nameVars, lrVars, kvVars, pfVars, matVars>>

CacheNext == CacheStart \/ CacheSnapshots \/ CacheScan \/ CacheReturn \/ CacheReport

InitCache == DlIdle /\ SayIdle /\ ClsIdle /\ CacheInit /\ OthersIdle

SpecCache == InitCache /\ [][CacheNext]_vars

\* the three directories the scan needs, at the cache root the environment names
CacheRootOf ==
    IF env.HF_HUB_CACHE # "" THEN env.HF_HUB_CACHE
    ELSE IF env.HF_HOME # "" THEN env.HF_HOME
    ELSE "/home/user/.cache/huggingface/hub"

ModelsFolderOf == CacheRootOf \o "/models--hexgrad--Kokoro-82M"

SnapshotsOf == ModelsFolderOf \o "/snapshots"

SomethingMissing ==
    CacheRootOf \notin fs_dirs \/ ModelsFolderOf \notin fs_dirs \/ SnapshotsOf \notin fs_dirs

\* C10: the scan returns the empty list and raises nothing whenever the cache
\* root, the models--<org>--<repo> folder or its snapshots directory does not
\* exist; no directory that does not exist is ever listed, so a revision
\* without a voices subdirectory is passed over without error.
C10_MissingCacheIsEmpty ==
    /\ cache_error # "FileNotFoundError"
    /\ (cache_pc = "done" /\ SomethingMissing)
           => (cache_downloaded = <<>> /\ cache_error = "none")

C10_Witness ==
    /\ cache_pc = "done"
    /\ ModelsFolderOf \in fs_dirs
    /\ SnapshotsOf \notin fs_dirs
    /\ cache_downloaded = <<>> /\ cache_error = "none"

\* a revision without voices/ beside one with it
C10_WitnessSkippedRevision ==
    /\ cache_pc = "done" /\ cache_error = "none"
    /\ (SnapshotsOf \o "/r1") \in fs_dirs
    /\ (SnapshotsOf \o "/r1/voices") \notin fs_dirs
    /\ (SnapshotsOf \o "/r2/voices") \in fs_dirs
    /\ Len(cache_downloaded) = 2

\* the names of the voice files in the voices directory of a revision
CachedIn(r) ==
    LET dir == CacheRootOf \o "/models--hexgrad--Kokoro-82M/snapshots/" \o r \o "/voices"
    IN  IF dir \in fs_dirs
        THEN {n \in UNION {{SubSeq(f, 1, k) : k \in 0..Len(f)} : f \in fs_files[dir]} :
                \E x \in {<<".", "p", "t">>, <<".", "o", "n", "n", "x">>, <<".", "b", "i", "n">>} :
                   n \o x \in fs_files[dir]}
        ELSE {}

\* the revisions present under snapshots/
RevisionsPresent ==
    {r \in {"r1", "r2"} :
        (CacheRootOf \o "/models--hexgrad--Kokoro-82M/snapshots/" \o r) \in fs_dirs}

\* C13: the "downloaded" field reported is the union, over every revision
\* present under snapshots/, of the voice names in that revision's voices
\* directory: a voice cached in one revision only is reported.
C13_UnionOverRevisions ==
    cache_reported # <<>> =>
       /\ set(cache_reported[1]) = UNION {CachedIn(r) : r \in RevisionsPresent}
       /\ \A i, j \in DOMAIN cache_reported[1] :
             i # j => cache_reported[1][i] # cache_reported[1][j]

\* "a" is cached in r1 only, "b" in r2 only, and both are reported
C13_Witness ==
    /\ cache_pc = "printed"
    /\ RevisionsPresent = {"r1", "r2"}
    /\ CachedIn("r1") = {<<"a">>}
    /\ CachedIn("r2") = {<<"b">>}
    /\ cache_reported = << <<<<"a">>, <<"b">>>> >>

(***************************************************************************)
(* lib/voice_utils.py, beside the helpers of kokoro_list_remote.py         *)
(***************************************************************************)

\* line 9
VOICE_EXTENSIONS == << <<".", "p", "t">>, <<".", "o", "n", "n", "x">>, <<".", "b", "i", "n">> >>

\* lines 12-21: str.endswith with a tuple of suffixes
lib_is_voice_file(filename) ==
    \E i \in DOMAIN VOICE_EXTENSIONS : endswith(filename, VOICE_EXTENSIONS[i])

\* lines 24-33
get_voice_name(path) == splitext_root(basename(path))

\* longest path drawn from the alphabet
MaxNameLen == 4

PathAlphabet == {"a", ".", "p", "t", "/"}

\* paths with the other two extensions
LongerPaths == {
    <<"a", ".", "o", "n", "n", "x">>,
    <<".", "o", "n", "n", "x">>,
    <<"a", ".", "p", "t", ".", "b", "i", "n">>,
    <<".", "b", "i", "n">>,
    <<"a", "/", "b", ".", "b", "i", "n">>,
    <<"a", "b", "i", "n">> }

Paths ==
    UNION {[1..n -> PathAlphabet] : n \in 0..MaxNameLen} \cup LongerPaths

VnInit ==
    /\ vn_pc = "call"
    /\ vn_path \in Paths
    /\ vn_lib = <<>>
    /\ vn_remote = <<>>

\* lib/voice_utils.py: is_voice_file and get_voice_name of the path
VnLib ==
    /\ vn_pc = "call"
    /\ vn_lib = <<>>
    /\ vn_lib' = <<[accepted |-> lib_is_voice_file(vn_path),
                    name |-> get_voice_name(vn_path)]>>
    /\ vn_pc' = IF vn_remote # <<>> THEN "returned" ELSE "call"
    /\ UNCHANGED <<vn_path, vn_remote>>
    /\ UNCHANGED <<dlVars, sayVars, clsVars, cacheVars, lrVars, kvVars, pfVars, matVars>>

\* kokoro_list_remote.py lines 10-15: the same two questions
VnRemote ==
    /\ vn_pc = "call"
    /\ vn_remote = <<>>
    /\ vn_remote' = <<[accepted |-> is_voice_file(vn_path),
                       name |-> get_voice_name_from_path(vn_path)]>>
    /\ vn_pc' = IF vn_lib # <<>> THEN "returned" ELSE "call"
    /\ UNCHANGED <<vn_path, vn_lib>>
    /\ UNCHANGED <<dlVars, sayVars, clsVars, cacheVars, lrVars, kvVars, pfVars, matVars>>

VnNext == VnLib \/ VnRemote

InitVoiceName == DlIdle /\ SayIdle /\ ClsIdle /\ CacheIdle /\ VnInit /\ LrIdle /\ KvIdle /\ PfIdle /\ MatIdle

SpecVoiceName == InitVoiceName /\ [][VnNext]_vars

\* what follows the last "/" of a path
LastComponent(path) ==
    LET slashes == {i \in DOMAIN path : path[i] = "/"}
    IN  IF slashes = {} THEN path ELSE SubSeq(path, Max(slashes) + 1, Len(path))

RecognizedExtensions ==
    {<<".", "p", "t">>, <<".", "o", "n", "n", "x">>, <<".", "b", "i", "n">>}

\* name + ext is the base name of the path for exactly one recognized ext
OneExtensionRemoved(name, path) ==
    Cardinality({x \in RecognizedExtensions : name \o x = LastComponent(path)}) = 1

\* C11: for every name accepted as a voice file, the derived voice name is
\* the base name with exactly one matched voice extension removed: name + ext
\* is the base name for exactly one recognized extension, also for names with
\* further dots and names that are nothing but an extension.
C11_OneExtensionStripped ==
    /\ \A r \in set(vn_lib) : r.accepted => OneExtensionRemoved(r.name, vn_path)
    /\ \A r \in set(vn_remote) : r.accepted => OneExtensionRemoved(r.name, vn_path)

(***************************************************************************)
(* kokoro_list_remote.py: main                                             *)
(***************************************************************************)

\* str.startswith
startswith(name, prefix) ==
    /\ Len(name) >= Len(prefix)
    /\ SubSeq(name, 1, Len(prefix)) = prefix

\* "voices/"
VoicesPrefix == <<"v", "o", "i", "c", "e", "s", "/">>

\* most files in a remote repository
MaxRepoFiles == 3

RemotePaths == {
    VoicesPrefix \o <<"a", ".", "p", "t">>,
    VoicesPrefix \o <<"a", ".", "b", "i", "n">>,
    VoicesPrefix \o <<"b", ".", "o", "n", "n", "x">>,
    VoicesPrefix \o <<".", "p", "t">>,
    VoicesPrefix \o <<"s", "/", "c", ".", "p", "t">>,
    VoicesPrefix \o <<"n", ".", "t", "x", "t">>,
    <<"a", ".", "p", "t">>,
    <<"v", "o", "i", "c", "e", "s", "x", ".", "p", "t">> }

Repositories == {fset \in SUBSET RemotePaths : Cardinality(fset) <= MaxRepoFiles}

\* what find_downloaded_voices_in_cache hands back to line 65: a list of
\* names in any order, repetitions included, or an exception of os.listdir;
\* the function itself is followed step by step under SpecCache
ScanResults ==
    {[raised |-> FALSE, list |-> l] :
        l \in {<<>>, << <<"a">> >>, << <<"b">>, <<"a">>, <<"b">> >>}}
    \cup {[raised |-> TRUE, list |-> <<>>]}

LrInit ==
    /\ lr_pc = "list"
    /\ lr_repo \in Repositories
    /\ lr_files = {}
    /\ lr_voices = {}
    /\ lr_downloaded = <<>>
    /\ lr_output = <<>>
    /\ lr_exit = -1

\* lines 57-58: api.list_repo_files; an exception goes to lines 73-75
LrListFiles ==
    /\ lr_pc = "list"
    /\ \E outcome \in {"ok", "fault"} :
         IF outcome = "ok"
         THEN /\ lr_files' = lr_repo
              /\ lr_pc' = "collect"
              /\ UNCHANGED lr_exit
         ELSE /\ lr_exit' = 2
              /\ lr_pc' = "done"
              /\ UNCHANGED lr_files
    /\ UNCHANGED <<lr_repo, lr_voices, lr_downloaded, lr_output>>
    /\ UNCHANGED <<dlVars, sayVars, clsVars, cacheVars, nameVars, kvVars, pfVars, matVars>>

\* lines 60-63
collect_voices(files) ==
    {get_voice_name_from_path(f) :
        f \in {g \in files : startswith(g, VoicesPrefix) /\ is_voice_file(g)}}

LrCollect ==
    /\ lr_pc = "collect"
    /\ lr_voices' = collect_voices(lr_files)
    /\ lr_pc' = "cache"
    /\ UNCHANGED <<lr_repo, lr_files, lr_downloaded, lr_output, lr_exit>>
    /\ UNCHANGED <<dlVars, sayVars, clsVars, cacheVars, nameVars, kvVars, pfVars, matVars>>

\* line 65
LrScanCache ==
    /\ lr_pc = "cache"
    /\ \E result \in ScanResults :
         IF result.raised
         THEN /\ lr_exit' = 2
              /\ lr_pc' = "done"
              /\ UNCHANGED lr_downloaded
         ELSE /\ lr_downloaded' = result.list
              /\ lr_pc' = "print"
              /\ UNCHANGED lr_exit
    /\ UNCHANGED <<lr_repo, lr_files, lr_voices, lr_output>>
    /\ UNCHANGED <<dlVars, sayVars, clsVars, cacheVars, nameVars, kvVars, pfVars, matVars>>

\* lines 67-72
LrPrint ==
    /\ lr_pc = "print"
    /\ lr_output' = <<[voices |-> sorted(lr_voices),
                       downloaded |-> sorted(set(lr_downloaded))]>>
    /\ lr_exit' = 0
    /\ lr_pc' = "done"
    /\ UNCHANGED <<lr_repo, lr_files, lr_voices, lr_downloaded>>
    /\ UNCHANGED <<dlVars, sayVars, clsVars, cacheVars, nameVars, kvVars, pfVars, matVars>>

LrNext == LrListFiles \/ LrCollect \/ LrScanCache \/ LrPrint

InitListRemote == DlIdle /\ SayIdle /\ ClsIdle /\ CacheIdle /\ NameIdle /\ LrInit /\ KvIdle /\ PfIdle /\ MatIdle

SpecListRemote == InitListRemote /\ [][LrNext]_vars

\* the strings s with s + ext = the base name of the path, ext recognized
ExtensionStripped(path) ==
    {n \in {SubSeq(LastComponent(path), 1, k) : k \in 0..Len(LastComponent(path))} :
        \E x \in RecognizedExtensions : n \o x = LastComponent(path)}

\* the remote files under voices/ that end with a recognized extension
RemoteVoiceFiles ==
    {f \in lr_repo :
        /\ Len(f) >= 7
        /\ SubSeq(f, 1, 7) = <<"v", "o", "i", "c", "e", "s", "/">>
        /\ \E x \in RecognizedExtensions :
              Len(f) >= Len(x) /\ SubSeq(f, Len(f) - Len(x) + 1, Len(f)) = x}

\* C12: the printed remote listing holds exactly the extension-stripped
\* names of the remote files under voices/ that end with a recognized
\* extension, each once, in sorted order.
C12_ListingIsStrippedNames ==
    lr_output # <<>> =>
       LET listed == lr_output[1].voices IN
       /\ set(listed) = UNION {ExtensionStripped(f) : f \in RemoteVoiceFiles}
       /\ \A i \in 1..(Len(listed) - 1) : str_lt(listed[i], listed[i + 1])

\* C20: every voice name the remote listing reports resolves, over the same
\* listing, to voices/<name><ext> for some recognized extension.
C20_ListedVoicesFetchable ==
    lr_output # <<>> =>
       \A i \in DOMAIN lr_output[1].voices :
          \E x \in RecognizedExtensions :
             (<<"v", "o", "i", "c", "e", "s", "/">> \o lr_output[1].voices[i] \o x) \in lr_repo

(***************************************************************************)
(* kokoro_voices.py: main                                                  *)
(***************************************************************************)

\* fnmatch: "*" stands for any characters, "/" included; every other
\* character of the patterns in use stands for itself
RECURSIVE fnmatch(_, _)
fnmatch(name, pattern) ==
    IF pattern = <<>> THEN name = <<>>
    ELSE IF Head(pattern) = "*"
    THEN \E k \in 0..Len(name) : fnmatch(SubSeq(name, k + 1, Len(name)), Tail(pattern))
    ELSE /\ name # <<>>
         /\ Head(name) = Head(pattern)
         /\ fnmatch(Tail(name), Tail(pattern))

\* the voice taken from the environment as it stands
select_voice_unstripped(arg_voice, env_voice) ==
    IF arg_voice # <<>> THEN arg_voice ELSE env_voice

\* line 27
select_voice(arg_voice, env_voice) ==
    IF arg_voice # <<>> THEN arg_voice ELSE strip(env_voice)

\* line 28
list_all_of(args_all, env_all) == args_all \/ strip(env_all) = <<"1">>

\* line 33
DefaultVoice == <<"a", "f", "_", "h", "e", "a", "r", "t">>

\* lines 34-38
voice_patterns(voice) ==
    <<VoicesPrefix \o voice \o <<".", "p", "t">>,
      VoicesPrefix \o voice \o <<".", "o", "n", "n", "x">>,
      VoicesPrefix \o voice \o <<".", "b", "i", "n">>>>

\* the listing kept whatever the mode
single_override_never(list_all, voice, voices) == voices

\* lines 51-52
single_override(list_all, voice, voices) ==
    IF ~list_all /\ voice # <<>> THEN {voice} ELSE voices

\* line 49
kv_is_voice_file(name) ==
    \/ endswith(name, <<".", "p", "t">>)
    \/ endswith(name, <<".", "o", "n", "n", "x">>)
    \/ endswith(name, <<".", "b", "i", "n">>)

\* lines 46-50; the order of os.listdir is dropped by line 53
listed_voices(dir) ==
    IF dir = <<>> THEN {}
    ELSE {splitext_root(name) : name \in {n \in dir[1] : kv_is_voice_file(n)}}

VoiceArguments == {<<>>, <<"a">>, <<" ">>}

VoiceEnvironments == {<<>>, <<"b">>, <<" ", "b", "\n">>, <<" ">>}

AllEnvironments == {<<>>, <<"1">>, <<" ", "1">>, <<"0">>}

\* names of files directly under voices/
VoiceDirNames == {
    <<"a", ".", "p", "t">>,
    <<"a", ".", "o", "n", "n", "x">>,
    <<"b", ".", "b", "i", "n">>,
    <<".", "p", "t">>,
    <<"n", ".", "t", "x", "t">>,
    DefaultVoice \o <<".", "p", "t">> }

VoiceRepositories ==
    {{VoicesPrefix \o n : n \in names} :
        names \in {fset \in SUBSET VoiceDirNames : Cardinality(fset) <= MaxRepoFiles}}

\* the voices directory of the snapshot before the call: missing, empty, or
\* holding a file of an earlier run
CachedDirectories == {<<>>, <<{}>>, <<{<<"c", ".", "b", "i", "n">>}>>}

KvInit ==
    /\ kv_pc = "select"
    /\ kv_args \in [voice : VoiceArguments, all : BOOLEAN]
    /\ kv_env \in [KOKORO_VOICE : VoiceEnvironments, KOKORO_ALL_VOICES : AllEnvironments]
    /\ kv_repo \in VoiceRepositories
    /\ kv_cached \in CachedDirectories
    /\ kv_voice = <<>>
    /\ kv_list_all = FALSE
    /\ kv_patterns = <<>>
    /\ kv_dir = <<>>
    /\ kv_output = <<>>
    /\ kv_exit = -1

\* lines 27-38
KvSelect ==
    /\ kv_pc = "select"
    /\ LET voice == select_voice(kv_args.voice, kv_env.KOKORO_VOICE)
           list_all == list_all_of(kv_args.all, kv_env.KOKORO_ALL_VOICES)
       IN  /\ kv_list_all' = list_all
           /\ IF ~list_all
              THEN /\ kv_voice' = IF voice = <<>> THEN DefaultVoice ELSE voice
                   /\ kv_patterns' = voice_patterns(kv_voice')
              ELSE /\ kv_voice' = voice
                   /\ kv_patterns' = <<VoicesPrefix \o <<"*">>>>
    /\ kv_pc' = "snapshot"
    /\ UNCHANGED <<kv_args, kv_env, kv_repo, kv_cached, kv_dir, kv_output, kv_exit>>
    /\ UNCHANGED <<dlVars, sayVars, clsVars, cacheVars, nameVars, lrVars, pfVars, matVars>>

\* lines 40-45: the repository's files that match an allow pattern are
\* written into the snapshot; an exception goes to lines 56-58
KvSnapshotDownload ==
    /\ kv_pc = "snapshot"
    /\ \E outcome \in {"ok", "fault"} :
         IF outcome = "ok"
         THEN LET fetched == {SubSeq(f, Len(VoicesPrefix) + 1, Len(f)) :
                                f \in {g \in kv_repo :
                                          \E i \in DOMAIN kv_patterns : fnmatch(g, kv_patterns[i])}}
              IN  /\ kv_dir' = IF fetched = {} THEN kv_cached
                                ELSE IF kv_cached = <<>> THEN <<fetched>>
                                ELSE <<fetched \cup kv_cached[1]>>
                  /\ kv_pc' = "list"
                  /\ UNCHANGED kv_exit
         ELSE /\ kv_exit' = 2
              /\ kv_pc' = "done"
              /\ UNCHANGED kv_dir
    /\ UNCHANGED <<kv_args, kv_env, kv_repo, kv_cached, kv_voice, kv_list_all,
                   kv_patterns, kv_output>>
    /\ UNCHANGED <<dlVars, sayVars, clsVars, cacheVars, nameVars, lrVars, pfVars, matVars>>

\* lines 46-55; the directory was written by this user a moment ago, so
\* os.listdir is taken to succeed
KvList ==
    /\ kv_pc = "list"
    /\ kv_output' = <<sorted(single_override(kv_list_all, kv_voice, listed_voices(kv_dir)))>>
    /\ kv_exit' = 0
    /\ kv_pc' = "done"
    /\ UNCHANGED <<kv_args, kv_env, kv_repo, kv_cached, kv_voice, kv_list_all,
                   kv_patterns, kv_dir>>
    /\ UNCHANGED <<dlVars, sayVars, clsVars, cacheVars, nameVars, lrVars, pfVars, matVars>>

KvNext == KvSelect \/ KvSnapshotDownload \/ KvList

InitVoices == DlIdle /\ SayIdle /\ ClsIdle /\ CacheIdle /\ NameIdle /\ LrIdle /\ KvInit /\ PfIdle /\ MatIdle

SpecVoices == InitVoices /\ [][KvNext]_vars

\* a text without its leading and trailing whitespace
Trimmed(text) ==
    IF NonWhitespaceAt(text) = {} THEN <<>>
    ELSE SubSeq(text, Min(NonWhitespaceAt(text)), Max(NonWhitespaceAt(text)))

\* all-voices mode as the script decides it
AllRequested == kv_args.all \/ Trimmed(kv_env.KOKORO_ALL_VOICES) = <<"1">>

SelectedVoice ==
    IF kv_args.voice # <<>> THEN kv_args.voice
    ELSE IF Trimmed(kv_env.KOKORO_VOICE) # <<>> THEN Trimmed(kv_env.KOKORO_VOICE)
    ELSE <<"a", "f", "_", "h", "e", "a", "r", "t">>

\* the entries of the materialized voices directory, none when it is missing
DirectoryEntries == IF kv_dir = <<>> THEN {} ELSE kv_dir[1]

\* C14: in all-voices mode (--all, or KOKORO_ALL_VOICES equal to "1") the
\* output is the sorted, duplicate-free list of the extension-stripped names
\* of the files of the materialized voices directory that end with .pt,
\* .onnx or .bin, the empty list for an empty or missing directory, and the
\* exit code is 0.
C14_AllModeListsStrippedNames ==
    (/\ kv_pc = "done"
     /\ kv_exit # 2
     /\ kv_args.all \/ kv_env.KOKORO_ALL_VOICES = <<"1">>) =>
       /\ kv_exit = 0
       /\ kv_output # <<>>
       /\ set(kv_output[1]) =
             UNION {ExtensionStripped(n) :
                      n \in {m \in DirectoryEntries :
                                \E x \in RecognizedExtensions :
                                   Len(m) >= Len(x)
                                   /\ SubSeq(m, Len(m) - Len(x) + 1, Len(m)) = x}}
       /\ \A i \in 1..(Len(kv_output[1]) - 1) : str_lt(kv_output[1][i], kv_output[1][i + 1])

\* C15: in single-voice mode, whenever materialization succeeds, the output
\* is the one-element list holding the selected voice and the exit code is
\* 0, whatever the materialized voices directory contains.
C15_SingleModeOutputsSelectedVoice ==
    (kv_pc = "done" /\ kv_exit # 2 /\ ~AllRequested) =>
       /\ kv_output = << <<SelectedVoice>> >>
       /\ kv_exit = 0

\* the directory holds the files of two other voices
C15_Witness ==
    /\ kv_pc = "done" /\ kv_exit = 0
    /\ kv_args = [voice |-> <<"a">>, all |-> FALSE]
    /\ kv_env.KOKORO_ALL_VOICES = <<"0">>
    /\ kv_dir = <<{<<"a", ".", "p", "t">>, <<"a", ".", "o", "n", "n", "x">>,
                    <<"c", ".", "b", "i", "n">>}>>
    /\ kv_output = << << <<"a">> >> >>

\* C16: once selected, in single-voice mode the voice is --voice when
\* non-empty, else the stripped KOKORO_VOICE when non-empty, else af_heart,
\* and the patterns are voices/<voice>.pt, .onnx, .bin for it; in all-voices
\* mode the single pattern voices/* is used whatever voice was given.
C16_VoiceSelectionAndPatterns ==
    kv_pc \in {"snapshot", "list", "done"} =>
       IF AllRequested
       THEN kv_patterns = << <<"v", "o", "i", "c", "e", "s", "/", "*">> >>
       ELSE /\ kv_voice = SelectedVoice
            /\ kv_patterns =
                  [i \in 1..3 |->
                     <<"v", "o", "i", "c", "e", "s", "/">> \o SelectedVoice
                     \o << <<".", "p", "t">>, <<".", "o", "n", "n", "x">>, <<".", "b", "i", "n">> >>[i]]

\* the voice comes from KOKORO_VOICE, given with whitespace around it
C16_Witness ==
    /\ kv_pc = "done" /\ kv_exit = 0
    /\ kv_args = [voice |-> <<>>, all |-> FALSE]
    /\ kv_env = [KOKORO_VOICE |-> <<" ", "b", "\n">>, KOKORO_ALL_VOICES |-> <<>>]
    /\ kv_patterns[3] = <<"v", "o", "i", "c", "e", "s", "/", "b", ".", "b", "i", "n">>
    /\ kv_dir = <<{<<"b", ".", "b", "i", "n">>}>>

\* all-voices mode with a voice given: the pattern is voices/* all the same
C16_WitnessAll ==
    /\ kv_pc = "done" /\ kv_exit = 0
    /\ kv_args = [voice |-> <<"a">>, all |-> TRUE]
    /\ kv_patterns = << <<"v", "o", "i", "c", "e", "s", "/", "*">> >>
    /\ Cardinality(DirectoryEntries) = 3

(***************************************************************************)
(* kokoro_prefetch.py: main                                                *)
(***************************************************************************)

\* lines 41-48
PrefetchAllowPatterns == <<
    <<"*", ".", "j", "s", "o", "n">>,
    <<"*", ".", "t", "x", "t">>,
    <<"*", ".", "p", "y">>,
    <<"*", ".", "m", "o", "d", "e", "l">>,
    <<"k", "o", "k", "o", "r", "o", "-", "v", "*", ".", "o", "n", "n", "x">>,
    <<"v", "o", "i", "c", "e", "s", "/", "a", "f", "_", "h", "e", "a", "r", "t", ".", "p", "t">> >>

\* line 49
PrefetchIgnorePatterns == <<
    <<"v", "o", "i", "c", "e", "s", "/", "*", ".", "p", "t">>,
    <<"v", "o", "i", "c", "e", "s", "/", "*", ".", "o", "n", "n", "x">>,
    <<"v", "o", "i", "c", "e", "s", "/", "*", ".", "b", "i", "n">> >>

\* what snapshot_download keeps of a repository: a file that matches an
\* allow pattern and no ignore pattern
filter_repo_objects(files, allow_patterns, ignore_patterns) ==
    {f \in files :
        /\ \E i \in DOMAIN allow_patterns : fnmatch(f, allow_patterns[i])
        /\ ~\E i \in DOMAIN ignore_patterns : fnmatch(f, ignore_patterns[i])}

PrefetchPaths == {
    <<"c", ".", "j", "s", "o", "n">>,
    <<"k", "o", "k", "o", "r", "o", "-", "v", "1", ".", "o", "n", "n", "x">>,
    <<"m", ".", "p", "t", "h">>,
    <<"v", "o", "i", "c", "e", "s", "/", "a", "f", "_", "h", "e", "a", "r", "t", ".", "p", "t">>,
    <<"v", "o", "i", "c", "e", "s", "/", "b", ".", "p", "t">>,
    <<"v", "o", "i", "c", "e", "s", "/", "b", ".", "b", "i", "n">>,
    <<"v", "o", "i", "c", "e", "s", "/", "n", ".", "t", "x", "t">> }

PrefetchRepositories ==
    {fset \in SUBSET PrefetchPaths : Cardinality(fset) <= MaxRepoFiles}

PfInit ==
    /\ pf_pc = "snapshot"
    /\ pf_repo \in PrefetchRepositories
    /\ pf_materialized = {}
    /\ pf_stdout = ""
    /\ pf_exit = -1

\* lines 29-51; an exception goes to lines 69-71
PfSnapshotDownload ==
    /\ pf_pc = "snapshot"
    /\ \E outcome \in {"ok", "fault"} :
         IF outcome = "ok"
         THEN /\ pf_materialized' =
                    filter_repo_objects(pf_repo, PrefetchAllowPatterns, PrefetchIgnorePatterns)
              /\ pf_pc' = "spacy"
              /\ UNCHANGED pf_exit
         ELSE /\ pf_exit' = 2
              /\ pf_pc' = "done"
              /\ UNCHANGED pf_materialized
    /\ UNCHANGED <<pf_repo, pf_stdout>>
    /\ UNCHANGED <<dlVars, sayVars, clsVars, cacheVars, nameVars, lrVars, kvVars, matVars>>

\* lines 53-68: spacy missing, its model present, or downloaded now; a
\* failure of the download is no ImportError and goes to lines 69-71
PfSpacy ==
    /\ pf_pc = "spacy"
    /\ \E outcome \in {"not_installed", "present", "downloaded", "fault"} :
         IF outcome = "fault"
         THEN /\ pf_exit' = 2
              /\ UNCHANGED pf_stdout
         ELSE /\ pf_stdout' = "Kokoro repo cached."
              /\ pf_exit' = 0
    /\ pf_pc' = "done"
    /\ UNCHANGED <<pf_repo, pf_materialized>>
    /\ UNCHANGED <<dlVars, sayVars, clsVars, cacheVars, nameVars, lrVars, kvVars, matVars>>

PfNext == PfSnapshotDownload \/ PfSpacy

InitPrefetch == DlIdle /\ SayIdle /\ ClsIdle /\ CacheIdle /\ NameIdle /\ LrIdle /\ KvIdle /\ PfInit /\ MatIdle

SpecPrefetch == InitPrefetch /\ [][PfNext]_vars

\* the files under voices/ that end with a recognized extension
VoiceFilesOf(files) ==
    {f \in files :
        /\ Len(f) >= 7
        /\ SubSeq(f, 1, 7) = <<"v", "o", "i", "c", "e", "s", "/">>
        /\ \E x \in RecognizedExtensions :
              Len(f) >= Len(x) /\ SubSeq(f, Len(f) - Len(x) + 1, Len(f)) = x}

\* C18: once the snapshot is materialized, the voice files in it are exactly
\* voices/af_heart.pt when the repository has it, and no other voice file.
C18_OnlyDefaultVoiceMaterialized ==
    pf_pc \in {"spacy"} \/ (pf_pc = "done" /\ pf_stdout # "") =>
       VoiceFilesOf(pf_materialized)
          = {<<"v", "o", "i", "c", "e", "s", "/", "a", "f", "_", "h", "e", "a", "r", "t", ".", "p", "t">>} \cap pf_repo

(***************************************************************************)
(* kokoro_say.py lines 33-43 beside kokoro_download_voice.py lines 20-35:  *)
(* the same voice and repository given to both scripts                     *)
(***************************************************************************)

\* kokoro_download_voice.py line 24, the voice and extension as characters
voice_filename(voice, ext) == VoicesPrefix \o voice \o ext

\* kokoro_say.py lines 37-42
say_allow_patterns(voice) == <<
    <<"*", ".", "j", "s", "o", "n">>,
    <<"*", ".", "t", "x", "t">>,
    <<"k", "o", "k", "o", "r", "o", "-", "v", "*", ".", "p", "t", "h">>,
    VoicesPrefix \o voice \o <<".", "p", "t">> >>

MatVoices == {<<"a">>, <<"b">>}

MatPaths == {
    <<"v", "o", "i", "c", "e", "s", "/", "a", ".", "p", "t">>,
    <<"v", "o", "i", "c", "e", "s", "/", "a", ".", "o", "n", "n", "x">>,
    <<"v", "o", "i", "c", "e", "s", "/", "b", ".", "o", "n", "n", "x">>,
    <<"v", "o", "i", "c", "e", "s", "/", "b", ".", "b", "i", "n">>,
    <<"c", ".", "j", "s", "o", "n">>,
    <<"k", "o", "k", "o", "r", "o", "-", "v", "1", ".", "p", "t", "h">> }

MatRepositories == {fset \in SUBSET MatPaths : Cardinality(fset) <= MaxRepoFiles}

MatInit ==
    /\ mat_pc = "resolve"
    /\ mat_voice \in MatVoices
    /\ mat_repo \in MatRepositories
    /\ mat_ext_i = 1
    /\ mat_resolved = <<>>
    /\ mat_patterns = <<>>
    /\ mat_materialized = {}

\* kokoro_download_voice.py lines 23-35: one iteration of the loop; a
\* success ends it, anything else goes on to the next extension
MatAttempt ==
    /\ mat_pc = "resolve"
    /\ mat_ext_i <= Len(VOICE_EXTENSIONS)
    /\ LET filename == voice_filename(mat_voice, VOICE_EXTENSIONS[mat_ext_i]) IN
       \E outcome \in hf_hub_download(mat_repo, filename) :
          IF outcome = "ok"
          THEN /\ mat_resolved' = <<filename>>
               /\ mat_pc' = "snapshot"
               /\ UNCHANGED mat_ext_i
          ELSE /\ mat_ext_i' = mat_ext_i + 1
               /\ UNCHANGED <<mat_resolved, mat_pc>>
    /\ UNCHANGED <<mat_voice, mat_repo, mat_patterns, mat_materialized>>
    /\ UNCHANGED <<dlVars, sayVars, clsVars, cacheVars, nameVars, lrVars, kvVars, pfVars>>

\* kokoro_download_voice.py lines 37-39: no extension was fetched
MatNotFound ==
    /\ mat_pc = "resolve"
    /\ mat_ext_i > Len(VOICE_EXTENSIONS)
    /\ mat_pc' = "snapshot"
    /\ UNCHANGED <<mat_voice, mat_repo, mat_ext_i, mat_resolved, mat_patterns,
                   mat_materialized>>
    /\ UNCHANGED <<dlVars, sayVars, clsVars, cacheVars, nameVars, lrVars, kvVars, pfVars>>

\* kokoro_say.py lines 34-43: snapshot_download with the allow patterns; an
\* exception goes to lines 83-85 and nothing is materialized
MatSnapshotDownload ==
    /\ mat_pc = "snapshot"
    /\ mat_patterns' = say_allow_patterns(mat_voice)
    /\ \E outcome \in {"ok", "fault"} :
         IF outcome = "ok"
         THEN mat_materialized' = filter_repo_objects(mat_repo, mat_patterns', <<>>)
         ELSE UNCHANGED mat_materialized
    /\ mat_pc' = "done"
    /\ UNCHANGED <<mat_voice, mat_repo, mat_ext_i, mat_resolved>>
    /\ UNCHANGED <<dlVars, sayVars, clsVars, cacheVars, nameVars, lrVars, kvVars, pfVars>>

MatNext == MatAttempt \/ MatNotFound \/ MatSnapshotDownload

InitMaterialize ==
    DlIdle /\ SayIdle /\ ClsIdle /\ CacheIdle /\ NameIdle /\ LrIdle /\ KvIdle /\ PfIdle /\ MatInit

SpecMaterialize == InitMaterialize /\ [][MatNext]_vars

\* C22: whenever the voice resolves to some extension, the patterns
\* kokoro_say asks the repository client to materialize include the file
\* that priority resolution selected.
C22_ResolvedFileRequested ==
    (mat_pc = "done" /\ mat_resolved # <<>>) =>
       \E i \in DOMAIN mat_patterns : fnmatch(mat_resolved[1], mat_patterns[i])

====
